---- MODULE Spec2Model ----
(***************************************************************************)
(* Model of the resource daemons of this repository: trawld                *)
(* (src/trawld/src/lib.rs) and its older variant resmand                   *)
(* (src/resmand/src/lib.rs).  Both keep a table `resources` of text keys   *)
(* and values, fill it from configuration files (load / merge) and from    *)
(* bus calls (set_resource / add_resource / remove_one / remove_all) and   *)
(* raise the ResourcesChanged signal.                                      *)
(*                                                                         *)
(* Text is modelled as a sequence of one-character strings, so that        *)
(* trimming, splitting at ':' and key validation are computed.             *)
(***************************************************************************)
EXTENDS Naturals, Sequences, FiniteSets, TLC

\* Number of bus clients whose calls may be in flight at the same time.
NumCallers == 2

Callers == 1..NumCallers

\* The two daemons of the repository.
Variants == {"trawld", "resmand"}

(***************************************************************************)
(* Text helpers                                                            *)
(***************************************************************************)

SetMin(S) == CHOOSE x \in S : \A y \in S : x <= y

SetMax(S) == CHOOSE x \in S : \A y \in S : y <= x

\* char::is_whitespace on the characters of the model's alphabet
IsWhitespace(ch) == ch \in {" ", "\t", "\r", "\n"}

\* char::is_ascii_alphanumeric on the characters of the model's alphabet
IsAsciiAlphanumeric(ch) == ch \in {"a", "b", "1", "2"}

\* str::trim: the slice between the first and the last non-whitespace character
Trim(s) ==
    LET keep == {i \in 1..Len(s) : ~IsWhitespace(s[i])}
    IN  IF keep = {} THEN <<>> ELSE SubSeq(s, SetMin(keep), SetMax(keep))

\* common::trim_str: strips leading and trailing whitespace
trim_str(s) == Trim(s)

\* str::lines: split at "\n"; a final empty piece is not a line; a trailing
\* "\r" of a line is dropped
Lines(text) ==
    LET nl == {i \in 1..Len(text) : text[i] = "\n"}
        ends == nl \cup (IF Len(text) > 0 /\ text[Len(text)] # "\n"
                         THEN {Len(text) + 1} ELSE {})
        start(e) == IF \E i \in nl : i < e
                    THEN SetMax({i \in nl : i < e}) + 1 ELSE 1
        strip(l) == IF Len(l) > 0 /\ l[Len(l)] = "\r"
                    THEN SubSeq(l, 1, Len(l) - 1) ELSE l
        ordered == [n \in 1..Cardinality(ends) |->
                      CHOOSE e \in ends : Cardinality({x \in ends : x < e}) = n - 1]
    IN  [n \in 1..Cardinality(ends) |->
            strip(SubSeq(text, start(ordered[n]), ordered[n] - 1))]

\* str::split_once(':'): the parts before and after the first ':', or
\* <<>> (None) when the line holds no ':'
split_once(s) ==
    LET colons == {i \in 1..Len(s) : s[i] = ":"}
    IN  IF colons = {} THEN <<>>
        ELSE <<SubSeq(s, 1, SetMin(colons) - 1),
               SubSeq(s, SetMin(colons) + 1, Len(s))>>

\* check_valid_key: trawld rejects the empty key and every key holding a
\* character that is neither ASCII alphanumeric nor one of - . _ ;
\* resmand has no test of the length
check_valid_key(v, key) ==
    /\ (v = "trawld" => Len(key) # 0)
    /\ \A i \in 1..Len(key) :
          IsAsciiAlphanumeric(key[i]) \/ key[i] \in {"-", ".", "_"}

\* parse_config: the lines holding ':' split at the first one, both parts
\* trimmed, invalid keys dropped, collected into a map (a later pair
\* replaces an earlier pair of the same key)
parse_config(v, config_str) ==
    LET ls == Lines(config_str)
        good == {n \in 1..Len(ls) :
                    /\ split_once(ls[n]) # <<>>
                    /\ check_valid_key(v, Trim(split_once(ls[n])[1]))}
        keyOf(n) == Trim(split_once(ls[n])[1])
        valOf(n) == Trim(split_once(ls[n])[2])
        keys == {keyOf(n) : n \in good}
    IN  [k \in keys |-> valOf(SetMax({n \in good : keyOf(n) = k}))]


(***************************************************************************)
(* The environment: configuration files and preprocessor executables       *)
(***************************************************************************)

\* Option values: None is <<>>, Some(x) is <<x>>
None == <<>>

Some(x) == <<x>>

\* "a: 1", "b :2" and a line whose key holds a space and '!'
BaseText ==
    <<"a", ":", " ", "1", "\n",
      "b", " ", ":", "2", "\n",
      "a", " ", "b", "!", ":", " ", "1", "\n">>

\* the key a twice (the value of the second line holds a ':'), a line
\* with an empty key and a line without ':'
OverText ==
    <<"a", ":", "1", "\r", "\n",
      "a", " ", ":", "2", ":", "1", "\n",
      ":", "1", "\n",
      "b", "\n">>

Paths == {"base", "over", "missing", "binary"}

\* What the file system holds at each path
FileSystem(path) ==
    CASE path = "base" -> [kind |-> "text", text |-> BaseText]
      [] path = "over" -> [kind |-> "text", text |-> OverText]
      [] path = "binary" -> [kind |-> "binary", text |-> <<>>]
      [] OTHER -> [kind |-> "missing", text |-> <<>>]

\* Preprocessor commands: one that can be started, one that cannot
Commands == {"cpp", "nocmd"}

\* The standard output of the preprocessor run on a file: a line marker
\* and the text of a readable file, the bytes of a binary file, nothing
\* (the error goes to standard error) for a missing file
CppStdout(path) ==
    LET f == FileSystem(path)
    IN  CASE f.kind = "text" -> [kind |-> "text", text |-> <<"#", "\n">> \o f.text]
          [] f.kind = "binary" -> f
          [] OTHER -> [kind |-> "text", text |-> <<>>]

Ok(text) == [ok |-> TRUE, text |-> text]

Err == [ok |-> FALSE, text |-> <<>>]

\* get_preprocessed_file: with nocpp the file read as UTF-8 text, else the
\* standard output of the preprocessor decoded as UTF-8; an error when the
\* file cannot be read, the command cannot be started or the bytes are
\* not UTF-8
get_preprocessed_file(path, nocpp, cpp) ==
    IF nocpp
    THEN IF FileSystem(path).kind = "text" THEN Ok(FileSystem(path).text) ELSE Err
    ELSE IF cpp # "cpp" THEN Err
         ELSE IF CppStdout(path).kind = "text" THEN Ok(CppStdout(path).text) ELSE Err

(***************************************************************************)
(* State                                                                   *)
(***************************************************************************)

VARIABLES
    variant,    \* which daemon runs
    args,       \* CliArgs: [nocpp, cpp]; args.load / args.filename is read once, by init
    phase,      \* "new" (constructed), "boot" (init runs), "serving"
    resources,  \* ResourceManager.resources: key -> value
    lock,       \* the caller holding the exclusive borrow of the manager, or 0
    call,       \* per caller: the handler it runs, its position and locals
    last        \* history: the set_resource / add_resource / load call that
                \* returned last, when the history is kept

vars == <<variant, args, phase, resources, lock, call, last>>

\* Keys and values that bus clients pass to set_resource, add_resource
\* and remove_one
KeyInputs == {<<"a">>, <<" ", "a">>, <<"a", "!">>}

ValInputs == {<<"1">>, <<" ", "2">>}

EmptyMap == [k \in {} |-> <<>>]

\* No set_resource / add_resource / load call was the last to return
NoCall == [name |-> "none", key |-> <<>>, val |-> <<>>, events |-> 0]

\* The history of calls is not kept
Untracked == [name |-> "untracked", key |-> <<>>, val |-> <<>>, events |-> 0]

\* A caller with no call in flight
Idle ==
    [pc |-> "idle", name |-> "none", path |-> "none", nocpp |-> FALSE,
     cpp |-> "none", key |-> <<>>, val |-> <<>>, key_trimmed |-> <<>>,
     val_trimmed |-> <<>>, curr_val |-> None, num_of_resources |-> 0,
     parsed_resources |-> EmptyMap, pending |-> EmptyMap, failed |-> FALSE, before |-> EmptyMap,
     events |-> 0, delivery |-> "none", ret |-> None]

\* The command lines the daemon is started with: --nocpp, a preprocessor
\* that can be started, and one that cannot
Configs ==
    {[nocpp |-> TRUE, cpp |-> "cpp"],
     [nocpp |-> FALSE, cpp |-> "cpp"],
     [nocpp |-> FALSE, cpp |-> "nocmd"]}

\* ResourceManager::from_args: an empty table; the preprocessor is
\* args.cpp or the default command
Init ==
    /\ variant \in Variants
    /\ args \in Configs
    /\ phase = "new"
    /\ resources = EmptyMap
    /\ lock = 0
    /\ call = [c \in Callers |-> Idle]
    /\ last = Untracked

\* The same start, with the history of calls kept
InitSeq ==
    /\ variant \in Variants
    /\ args \in Configs
    /\ phase = "new"
    /\ resources = EmptyMap
    /\ lock = 0
    /\ call = [c \in Callers |-> Idle]
    /\ last = NoCall

\* HashMap::insert
Insert(map, k, v) == (k :> v) @@ map

\* HashMap::remove
Remove(map, k) == [x \in DOMAIN map \ {k} |-> map[x]]

\* HashMap::get
Get(map, k) == IF k \in DOMAIN map THEN Some(map[k]) ELSE None


(***************************************************************************)
(* The decisions and table updates of the handlers                         *)
(***************************************************************************)

\* The key and the value as the handlers store them: trawld trims both
\* (trim_str), resmand stores them as passed
IngestKey(v, key) == IF v = "trawld" THEN trim_str(key) ELSE key

IngestVal(v, val) == IF v = "trawld" THEN trim_str(val) ELSE val

\* Mutation of load_entry: the loop overwrites, as merge does
load_entry_overwrites(map, k, v) == Insert(map, k, v)

\* Mutation of load_entry: the value of a present key is extended by the
\* value of the file
load_entry_appends(map, k, v) ==
    IF k \in DOMAIN map THEN Insert(map, k, map[k] \o v) ELSE Insert(map, k, v)

\* load_from_file, one round of its loop: self.resources.entry(k).or_insert(v)
load_entry(map, k, v) == IF k \in DOMAIN map THEN map ELSE Insert(map, k, v)

\* Mutation of merge_entry: the loop keeps present keys, as load does
merge_entry_keeps(map, k, v) == IF k \in DOMAIN map THEN map ELSE Insert(map, k, v)

\* merge_from_file, one round of its loop: self.resources.insert(k, v)
merge_entry(map, k, v) == Insert(map, k, v)

\* set_resource returns early when the key exists and `*x == val`: the
\* stored value is compared with the value as passed
set_resource_returns_early(curr_val, val) ==
    curr_val # None /\ curr_val[1] = val

\* add_resource returns early when the key is defined
add_resource_returns_early(curr_val) == curr_val # None

\* Mutation of programmatic_insert: the key is checked as the keys of a
\* file are
programmatic_insert_validated(v, map, k, val) ==
    IF check_valid_key(v, k) THEN Insert(map, k, val) ELSE map

\* set_resource / add_resource: self.resources.insert(key_trimmed,
\* val_trimmed); check_valid_key is not called on this path
programmatic_insert(v, map, k, val) == Insert(map, k, val)

\* Mutation of after_read: the signal is raised in place of the insertion
after_read_emits_first(early) == IF early THEN "done" ELSE "emit"

\* set_resource / add_resource after the early-return test: return, or go
\* on to the insertion (the signal follows it)
after_read(early) == IF early THEN "done" ELSE "write"

\* Mutation of emit_error_table: a failed delivery undoes the call
emit_error_rolls_back(map, before) == before

\* emit_resources_changed when resources_changed returns Err: the error is
\* logged and the table stays as the call left it
emit_error_table(map, before) == map

\* Mutation of remove_all_emits: the comparison is off by one
remove_all_emits_above_one(num_of_resources) == num_of_resources > 1

\* remove_all emits when num_of_resources > 0
remove_all_emits(num_of_resources) == num_of_resources > 0

\* handle_remove_all: self.resources.clear()
handle_remove_all(map) == EmptyMap

\* Mutation of handle_remove_one: the entry is reported but not removed
handle_remove_one_keeps(map, key) ==
    [map |-> map,
     ret |-> IF key \in DOMAIN map THEN Some(<<key, map[key]>>) ELSE None]

\* handle_remove_one: self.resources.remove_entry(key)
handle_remove_one(map, key) ==
    [map |-> Remove(map, key),
     ret |-> IF key \in DOMAIN map THEN Some(<<key, map[key]>>) ELSE None]

(***************************************************************************)
(* The handlers, step by step                                              *)
(***************************************************************************)

\* Mutation of AcquireManager: handlers run without exclusive access
AcquireManagerShared(c) == call[c].pc = "idle"

\* The read handlers: they take `&self`
ReadNames == {"query", "get_resource", "resources"}

\* A handler takes `&mut self`: it starts when no other call holds the
\* manager, exclusively or shared, and holds it until it returns
AcquireManager(c) ==
    /\ lock = 0
    /\ call[c].pc = "idle"
    /\ \A d \in Callers : call[d].name \notin ReadNames

\* Mutation of AcquireShared: reads do not wait for a running `&mut self`
\* handler
AcquireSharedUnguarded(c) == call[c].pc = "idle"

\* A read handler takes `&self`: it starts when no `&mut self` handler
\* holds the manager; other reads may run
AcquireShared(c) == lock = 0 /\ call[c].pc = "idle"

\* The locals of a call at its start
NewCall(name, pc) ==
    [Idle EXCEPT !.name = name, !.pc = pc, !.before = resources]

\* The history at the start of a call: the call that returned last is
\* remembered for a call of the same handler, which it may be compared with
Follows(name) ==
    IF last = Untracked \/ last.name = name THEN last ELSE NoCall

Start(c, rec) ==
    /\ phase = "serving"
    /\ AcquireManager(c)
    /\ lock' = c
    /\ call' = [call EXCEPT ![c] = rec]
    /\ last' = Follows(rec.name)
    /\ UNCHANGED <<variant, args, phase, resources>>

\* Where a handler goes once load_from_file / merge_from_file has returned:
\* the bus handlers emit, init does not
AfterFile(name) == IF name = "init" THEN "done" ELSE "emit"

\* init: load args.load, else args.filename, if one is given
init ==
    /\ phase = "new"
    /\ \/ /\ phase' = "serving"
          /\ UNCHANGED <<lock, call>>
       \/ \E p \in {"base", "missing"} :
            /\ phase' = "boot"
            /\ lock' = 1
            /\ call' = [call EXCEPT ![1] =
                  [NewCall("init", "file") EXCEPT
                      !.path = p, !.nocpp = args.nocpp, !.cpp = args.cpp]]
    /\ UNCHANGED <<variant, args, resources, last>>

\* load(path, nocpp) of trawld, load(path) of resmand
load(c) ==
    \E p \in Paths, n \in BOOLEAN :
        /\ variant = "resmand" => n = args.nocpp
        /\ Start(c, [NewCall("load", "file") EXCEPT
                        !.path = p, !.nocpp = n, !.cpp = args.cpp])

\* merge(path, nocpp) of trawld, merge(path) of resmand
merge(c) ==
    \E p \in Paths, n \in BOOLEAN :
        /\ variant = "resmand" => n = args.nocpp
        /\ Start(c, [NewCall("merge", "file") EXCEPT
                        !.path = p, !.nocpp = n, !.cpp = args.cpp])

\* load_cpp(path, cpp, args)
load_cpp(c) ==
    \E p \in Paths, cmd \in Commands :
        /\ variant = "trawld"
        /\ Start(c, [NewCall("load_cpp", "file") EXCEPT
                        !.path = p, !.nocpp = FALSE, !.cpp = cmd])

\* merge_cpp(path, cpp, args)
merge_cpp(c) ==
    \E p \in Paths, cmd \in Commands :
        /\ variant = "trawld"
        /\ Start(c, [NewCall("merge_cpp", "file") EXCEPT
                        !.path = p, !.nocpp = FALSE, !.cpp = cmd])

IsLoad(name) == name \in {"init", "load", "load_cpp"}

\* load_from_file / merge_from_file up to the loop: the text is fetched and
\* parsed; an error returns at once
read_config(c) ==
    /\ call[c].pc = "file"
    /\ LET r == get_preprocessed_file(call[c].path, call[c].nocpp, call[c].cpp)
           parsed == parse_config(variant, r.text)
       IN  call' = [call EXCEPT ![c] =
              IF ~r.ok
              THEN [@ EXCEPT !.failed = TRUE, !.pc = AfterFile(call[c].name)]
              ELSE [@ EXCEPT !.parsed_resources = parsed, !.pending = parsed,
                             !.pc = IF DOMAIN parsed = {} THEN AfterFile(call[c].name)
                                    ELSE "apply"]]
    /\ UNCHANGED <<variant, args, phase, resources, lock, last>>

\* One round of `for (k, v) in parsed_resources` (a HashMap: any order)
apply_entry(c) ==
    /\ call[c].pc = "apply"
    /\ \E k \in DOMAIN call[c].pending :
          /\ resources' = IF IsLoad(call[c].name)
                          THEN load_entry(resources, k, call[c].pending[k])
                          ELSE merge_entry(resources, k, call[c].pending[k])
          /\ call' = [call EXCEPT ![c] =
                [@ EXCEPT !.pending = Remove(@, k),
                          !.pc = IF DOMAIN call[c].pending = {k} THEN AfterFile(call[c].name)
                                 ELSE "apply"]]
    /\ UNCHANGED <<variant, args, phase, lock, last>>

\* set_resource(key, val): the key and the value are ingested
set_resource(c) ==
    \E k \in KeyInputs, v \in ValInputs :
        /\ variant \in Variants
        /\ Start(c, [NewCall("set_resource", "read") EXCEPT
                        !.key = k, !.val = v,
                        !.key_trimmed = IngestKey(variant, k),
                        !.val_trimmed = IngestVal(variant, v)])

\* add_resource(key, val)
add_resource(c) ==
    \E k \in KeyInputs, v \in ValInputs :
        /\ variant \in Variants
        /\ Start(c, [NewCall("add_resource", "read") EXCEPT
                        !.key = k, !.val = v,
                        !.key_trimmed = IngestKey(variant, k),
                        !.val_trimmed = IngestVal(variant, v)])

\* set_resource / add_resource: curr_val = self.resources.get(key_trimmed)
\* and the early return
read_current(c) ==
    /\ call[c].pc = "read"
    /\ call[c].name \in {"set_resource", "add_resource"}
    /\ LET cur == Get(resources, call[c].key_trimmed)
           early == IF call[c].name = "set_resource"
                    THEN set_resource_returns_early(cur, call[c].val)
                    ELSE add_resource_returns_early(cur)
       IN  call' = [call EXCEPT ![c] =
              [@ EXCEPT !.curr_val = cur,
                        !.pc = after_read(early)]]
    /\ UNCHANGED <<variant, args, phase, resources, lock, last>>

\* set_resource / add_resource: self.resources.insert(key_trimmed, val_trimmed)
insert_resource(c) ==
    /\ call[c].pc = "write"
    /\ call[c].name \in {"set_resource", "add_resource"}
    /\ resources' = programmatic_insert(variant, resources,
                                        call[c].key_trimmed, call[c].val_trimmed)
    /\ call' = [call EXCEPT ![c].pc = "emit"]
    /\ UNCHANGED <<variant, args, phase, lock, last>>

\* remove_all (trawld)
remove_all(c) ==
    /\ variant = "trawld"
    /\ Start(c, NewCall("remove_all", "read"))

\* remove_all: num_of_resources = self.resources.len()
count_resources(c) ==
    /\ call[c].pc = "read"
    /\ call[c].name = "remove_all"
    /\ call' = [call EXCEPT ![c] =
          [@ EXCEPT !.num_of_resources = Cardinality(DOMAIN resources),
                    !.pc = "write"]]
    /\ UNCHANGED <<variant, args, phase, resources, lock, last>>

\* remove_all: self.resources.clear(), then the event if the table held
\* entries
clear_resources(c) ==
    /\ call[c].pc = "write"
    /\ call[c].name = "remove_all"
    /\ resources' = handle_remove_all(resources)
    /\ call' = [call EXCEPT ![c].pc =
          IF remove_all_emits(call[c].num_of_resources) THEN "emit" ELSE "done"]
    /\ UNCHANGED <<variant, args, phase, lock, last>>

\* remove_one(key) (trawld): the key is trimmed
remove_one(c) ==
    /\ variant = "trawld"
    /\ \E k \in KeyInputs :
          Start(c, [NewCall("remove_one", "write") EXCEPT
                       !.key = k, !.key_trimmed = trim_str(k)])

\* remove_one: removed_entry = self.handle_remove_one(key_trimmed), then
\* the event if an entry was removed
remove_entry(c) ==
    /\ call[c].pc = "write"
    /\ call[c].name = "remove_one"
    /\ LET r == handle_remove_one(resources, call[c].key_trimmed)
       IN  /\ resources' = r.map
           /\ call' = [call EXCEPT ![c] =
                 [@ EXCEPT !.ret = r.ret,
                           !.pc = IF r.ret # None THEN "emit" ELSE "done"]]
    /\ UNCHANGED <<variant, args, phase, lock, last>>

\* emit_resources_changed: the ResourcesChanged signal is raised; the
\* delivery succeeds, or fails and the error is logged
emit_resources_changed(c) ==
    /\ call[c].pc = "emit"
    /\ \E sent \in BOOLEAN :
          /\ call' = [call EXCEPT ![c] =
                [@ EXCEPT !.events = @ + 1,
                          !.delivery = IF sent THEN "sent" ELSE "failed",
                          !.pc = "done"]]
          /\ resources' = IF sent THEN resources
                          ELSE emit_error_table(resources, call[c].before)
    /\ UNCHANGED <<variant, args, phase, lock, last>>

\* The handler returns: the manager is free again
return(c) ==
    /\ call[c].pc = "done"
    /\ lock' = IF lock = c THEN 0 ELSE lock
    /\ call' = [call EXCEPT ![c] = Idle]
    /\ phase' = IF call[c].name = "init" THEN "serving" ELSE phase
    /\ last' = CASE last = Untracked -> last
                 [] call[c].name \in {"set_resource", "add_resource"} ->
                       [name |-> call[c].name, key |-> call[c].key,
                        val |-> call[c].val, events |-> call[c].events]
                 [] call[c].name \in {"load", "load_cpp"} ->
                       [name |-> call[c].name, key |-> <<call[c].path>>,
                        val |-> <<call[c].nocpp, call[c].cpp>>,
                        events |-> call[c].events]
                 [] OTHER -> NoCall
    /\ UNCHANGED <<variant, args, resources>>

(***************************************************************************)
(* The read handlers                                                       *)
(***************************************************************************)

\* The byte of a character of the model's alphabet (the order of str)
CharCode(ch) ==
    CASE ch = "\t" -> 9 [] ch = "\n" -> 10 [] ch = "\r" -> 13 [] ch = " " -> 32
      [] ch = "!" -> 33 [] ch = "#" -> 35 [] ch = "-" -> 45 [] ch = "." -> 46
      [] ch = "1" -> 49 [] ch = "2" -> 50 [] ch = ":" -> 58 [] ch = "_" -> 95
      [] ch = "a" -> 97 [] ch = "b" -> 98

\* The order of String: x < y
StrLess(x, y) ==
    \E i \in 1..Len(y) :
        /\ i <= Len(x) + 1
        /\ SubSeq(x, 1, i - 1) = SubSeq(y, 1, i - 1)
        /\ (i > Len(x) \/ CharCode(x[i]) < CharCode(y[i]))

\* str::contains
Contains(k, q) ==
    \E i \in 0..Len(k) : i + Len(q) <= Len(k) /\ SubSeq(k, i + 1, i + Len(q)) = q

\* format!("{} :\t{}", x, v)
FormatEntry(k, v) == k \o <<" ", ":", "\t">> \o v

\* matches.sort(): the lines in ascending order
SortLines(S) ==
    [n \in 1..Cardinality(S) |->
        CHOOSE x \in S : Cardinality({y \in S : StrLess(y, x)}) = n - 1]

\* matches.join("\n")
RECURSIVE Join(_)
Join(ls) ==
    IF Len(ls) = 0 THEN <<>>
    ELSE IF Len(ls) = 1 THEN ls[1]
    ELSE ls[1] \o <<"\n">> \o Join(Tail(ls))

\* query: the entries whose key contains the query (trimmed by trawld, as
\* passed by resmand), formatted, sorted and joined
query_result(v, map, q) ==
    LET query_trimmed == IF v = "trawld" THEN trim_str(q) ELSE q
        matches == {FormatEntry(k, map[k]) :
                       k \in {x \in DOMAIN map : Contains(x, query_trimmed)}}
    IN  Join(SortLines(matches))

\* get_resource: the value of the key (trimmed by trawld, as passed by
\* resmand), or the empty string
get_resource_value(v, map, key) ==
    LET key_trimmed == IF v = "trawld" THEN trim_str(key) ELSE key
    IN  IF key_trimmed \in DOMAIN map THEN map[key_trimmed] ELSE <<>>

\* What clients pass to query and to get_resource
QueryInputs == {<<>>, <<" ", "a">>, <<"1">>}

GetInputs == {<<" ", "a">>, <<"a", "!">>}

StartRead(c, rec) ==
    /\ phase = "serving"
    /\ AcquireShared(c)
    /\ call' = [call EXCEPT ![c] = rec]
    /\ last' = Follows(rec.name)
    /\ UNCHANGED <<variant, args, phase, resources, lock>>

\* query(q)
query(c) ==
    \E q \in QueryInputs :
        /\ variant \in Variants
        /\ StartRead(c, [NewCall("query", "done") EXCEPT
                            !.key = q,
                            !.ret = Some(query_result(variant, resources, q))])

\* get_resource(key)
get_resource(c) ==
    \E k \in GetInputs :
        /\ variant \in Variants
        /\ StartRead(c, [NewCall("get_resource", "done") EXCEPT
                            !.key = k,
                            !.ret = Some(get_resource_value(variant, resources, k))])

\* The property Resources: self.resources.clone()
resources_property(c) ==
    /\ variant \in Variants
    /\ StartRead(c, [NewCall("resources", "done") EXCEPT !.ret = Some(resources)])

Next ==
    \/ init
    \/ \E c \in Callers :
          \/ load(c)
          \/ merge(c)
          \/ load_cpp(c)
          \/ merge_cpp(c)
          \/ read_config(c)
          \/ apply_entry(c)
          \/ set_resource(c)
          \/ add_resource(c)
          \/ read_current(c)
          \/ insert_resource(c)
          \/ remove_all(c)
          \/ count_resources(c)
          \/ clear_resources(c)
          \/ remove_one(c)
          \/ remove_entry(c)
          \/ emit_resources_changed(c)
          \/ query(c)
          \/ get_resource(c)
          \/ resources_property(c)
          \/ return(c)

Spec == Init /\ [][Next]_vars

\* The daemon with the history of calls kept
SpecSeq == InitSeq /\ [][Next]_vars


(***************************************************************************)
(* Properties                                                              *)
(***************************************************************************)

\* The caller's handler has run to its end and has not yet returned
Done(c) == call[c].pc = "done"

BusMutators ==
    {"load", "merge", "load_cpp", "merge_cpp", "set_resource", "add_resource",
     "remove_one", "remove_all"}

LoadNames == {"load", "load_cpp"}

MergeNames == {"merge", "merge_cpp"}

\* The key rule of the data model: non-empty, every character ASCII
\* alphanumeric or one of - . _
ValidKey(k) ==
    /\ Len(k) > 0
    /\ \A i \in 1..Len(k) : k[i] \in {"a", "b", "1", "2", "-", ".", "_"}

\* C1: a call of a mutating bus operation raises exactly one
\* ResourcesChanged event if the table after the call differs from the
\* table before it, and none if the table is unchanged.
C1_OneEventIffTableChanged ==
    \A c \in Callers :
        (Done(c) /\ call[c].name \in BusMutators)
            => call[c].events = (IF resources # call[c].before THEN 1 ELSE 0)

\* C2: a load or merge call that fails to obtain the file text leaves the
\* table as it was and raises no ResourcesChanged event.
C2_FailedLoadIsSilent ==
    \A c \in Callers :
        (Done(c) /\ call[c].name \in LoadNames \cup MergeNames /\ call[c].failed)
            => (resources = call[c].before /\ call[c].events = 0)

\* C3: set_resource(k, v) followed immediately by set_resource(k, v): the
\* second call finds the stored value equal to the value being set and is
\* a no-op (no mutation, no event), so the two calls raise no more events
\* than the first one did.
C3_RepeatedSetIsNoOp ==
    \A c \in Callers :
        (/\ Done(c)
         /\ call[c].name = "set_resource"
         /\ last.name = "set_resource"
         /\ last.key = call[c].key
         /\ last.val = call[c].val)
            => (/\ call[c].events = 0
                /\ resources = call[c].before
                /\ last.events + call[c].events <= 1)

\* C4: after a successful load every key present before the call maps to
\* the value it had before, and every valid key of the file that was absent
\* before is present with the file's value.
C4_LoadNeverOverrides ==
    \A c \in Callers :
        (Done(c) /\ call[c].name \in LoadNames /\ ~call[c].failed)
            => (/\ \A k \in DOMAIN call[c].before :
                      k \in DOMAIN resources /\ resources[k] = call[c].before[k]
                /\ \A k \in DOMAIN call[c].parsed_resources \ DOMAIN call[c].before :
                      ValidKey(k) =>
                          (/\ k \in DOMAIN resources
                           /\ resources[k] = call[c].parsed_resources[k]))

\* A load has ended that met a key of the file already present with another
\* value, and a key of the file that was absent
C4_Witness ==
    \E c \in Callers :
        /\ Done(c) /\ call[c].name \in LoadNames /\ ~call[c].failed
        /\ \E k \in DOMAIN call[c].before \cap DOMAIN call[c].parsed_resources :
              call[c].before[k] # call[c].parsed_resources[k]
        /\ \E k \in DOMAIN call[c].parsed_resources \ DOMAIN call[c].before :
              ValidKey(k)

\* C5: after a successful merge every valid key parsed from the file maps
\* to the file's value, whatever the table held for it before.
C5_MergeOverwrites ==
    \A c \in Callers :
        (Done(c) /\ call[c].name \in MergeNames /\ ~call[c].failed)
            => \A k \in DOMAIN call[c].parsed_resources :
                  ValidKey(k) =>
                      (/\ k \in DOMAIN resources
                       /\ resources[k] = call[c].parsed_resources[k])

\* A merge has ended that met a key of the file present with another value
C5_Witness ==
    \E c \in Callers :
        /\ Done(c) /\ call[c].name \in MergeNames /\ ~call[c].failed
        /\ \E k \in DOMAIN call[c].before \cap DOMAIN call[c].parsed_resources :
              /\ ValidKey(k)
              /\ call[c].before[k] # call[c].parsed_resources[k]

\* What add_resource has to leave behind when the key and the value are
\* stored as `key` and `val`: nothing new for a present key, the entry and
\* one event for an absent key; and a second add_resource of the same key
\* with another value leaves the value of the first
AddNeverOverwrites(c, key, val, firstVal) ==
    /\ IF key \in DOMAIN call[c].before
       THEN resources = call[c].before /\ call[c].events = 0
       ELSE resources = Insert(call[c].before, key, val) /\ call[c].events = 1
    /\ (/\ last.name = "add_resource"
        /\ last.key = call[c].key
        /\ last.val # call[c].val
        /\ last.events = 1)
           => (key \in DOMAIN resources /\ resources[key] = firstVal)

\* C6: add_resource(k, v1) followed by add_resource(k, v2),
\* v1 # v2, leaves k mapped to the trimmed v1; add_resource on a present
\* (trimmed) key is a no-op without event, on an absent key it inserts the
\* trimmed entry and raises one event.
C6_AddKeepsTrimmedFirstValue ==
    \A c \in Callers :
        (Done(c) /\ call[c].name = "add_resource")
            => AddNeverOverwrites(c, Trim(call[c].key), Trim(call[c].val),
                                  Trim(last.val))

C8_RemoveAll ==
    \A c \in Callers :
        (Done(c) /\ call[c].name = "remove_all")
            => (/\ resources = EmptyMap
                /\ call[c].events = (IF call[c].before # EmptyMap THEN 1 ELSE 0))

\* A remove_all of a table with exactly one entry has ended
C8_Witness ==
    \E c \in Callers :
        /\ Done(c) /\ call[c].name = "remove_all"
        /\ Cardinality(DOMAIN call[c].before) = 1

\* C9: every key that a load or merge call, or the bootstrap load, puts
\* into the table is valid; a file line whose key part is empty or holds
\* another character produces no entry.
C9_FileKeysAreValid ==
    \A c \in Callers :
        call[c].name \in LoadNames \cup MergeNames \cup {"init"}
            => \A k \in DOMAIN resources \ DOMAIN call[c].before : ValidKey(k)


\* load_from_file applied to a table in one piece: the parsed entries whose
\* keys the table lacks are added
LoadAll(map, parsed) ==
    [k \in DOMAIN map \cup DOMAIN parsed |->
        IF k \in DOMAIN map THEN map[k] ELSE parsed[k]]

\* merge_from_file applied to a table in one piece
MergeAll(map, parsed) ==
    [k \in DOMAIN map \cup DOMAIN parsed |->
        IF k \in DOMAIN parsed THEN parsed[k] ELSE map[k]]

\* The table that the call of caller c leaves when it runs alone on the
\* table it found at its start
SerialOutcome(c) ==
    LET t == call[c].before
        k == call[c].key_trimmed
        n == call[c].name
    IN  CASE n = "set_resource" ->
                IF set_resource_returns_early(Get(t, k), call[c].val)
                THEN t ELSE Insert(t, k, call[c].val_trimmed)
          [] n = "add_resource" ->
                IF add_resource_returns_early(Get(t, k))
                THEN t ELSE Insert(t, k, call[c].val_trimmed)
          [] n = "remove_one" -> Remove(t, k)
          [] n = "remove_all" -> EmptyMap
          [] n \in LoadNames -> LoadAll(t, call[c].parsed_resources)
          [] n \in MergeNames -> MergeAll(t, call[c].parsed_resources)
          [] OTHER -> t

\* C10: the read-decide-write sequence of every mutating operation is
\* indivisible with respect to the other mutating operations: at most one
\* handler runs at a time, each ends with the table that it produces when
\* run alone on the table it found, and the key that add_resource found
\* absent is still absent when it inserts (one insertion for two racing
\* add_resource calls of the same key).
C10_MutationsAreSerial ==
    /\ Cardinality({c \in Callers :
                        call[c].pc # "idle" /\ call[c].name \notin ReadNames}) <= 1
    /\ \A c \in Callers :
          /\ (Done(c) /\ call[c].name \in BusMutators)
                => resources = SerialOutcome(c)
          /\ (call[c].pc = "write" /\ call[c].name = "add_resource")
                => call[c].key_trimmed \notin DOMAIN resources
          /\ (call[c].pc = "write" /\ call[c].name = "set_resource")
                => call[c].curr_val = Get(resources, call[c].key_trimmed)

\* One caller is about to insert for add_resource while the add_resource
\* call of another caller cannot start
C10_Witness ==
    \E c, d \in Callers :
        /\ c # d
        /\ call[c].pc = "write" /\ call[c].name = "add_resource"
        /\ call[d].pc = "idle"
        /\ ~ENABLED add_resource(d)


\* C11: file reading and preprocessing of a load / merge call are not
\* performed while the store's exclusive section is held (so that other
\* calls can run during them); only the step applying the parsed mapping
\* is exclusive.
C11_FileReadOutsideExclusiveSection ==
    \A c \in Callers :
        (call[c].pc = "file" /\ call[c].name \in LoadNames \cup MergeNames)
            => (/\ lock # c
                /\ \E d \in Callers \ {c} : ENABLED set_resource(d))

\* The table as the last completed mutation left it
Committed == IF lock # 0 THEN call[lock].before ELSE resources

\* What the read of caller d returns on table t
ReadOf(d, t) ==
    CASE call[d].name = "query" -> query_result(variant, t, call[d].key)
      [] call[d].name = "get_resource" -> get_resource_value(variant, t, call[d].key)
      [] OTHER -> t

\* C12: a read (query, get_resource, the Resources property) never
\* observes the table mid-mutation: what it returns is what it returns on
\* the table as it was before a running call or on the table with all of
\* that call's entries applied.
C12_ReadsSeeNoTornTable ==
    \A d \in Callers :
        (Done(d) /\ call[d].name \in ReadNames)
            => \E t \in {Committed} \cup
                        {SerialOutcome(c) : c \in {x \in Callers :
                                                     call[x].name \in BusMutators}} :
                  call[d].ret = Some(ReadOf(d, t))

\* A load or merge has applied some of its entries, not all, and the read
\* of another caller cannot start
C12_Witness ==
    \E c, d \in Callers :
        /\ c # d
        /\ call[c].pc = "apply"
        /\ resources # call[c].before
        /\ resources # SerialOutcome(c)
        /\ call[d].pc = "idle"
        /\ ~ENABLED resources_property(d)


\* C13: when the ResourcesChanged event of a state-changing call is raised,
\* the mutation of the call is already in the table, and a call raises at
\* most one event.
C13_EventAfterMutation ==
    \A c \in Callers :
        /\ call[c].events <= 1
        /\ (call[c].name \in BusMutators
            /\ (call[c].pc = "emit" \/ call[c].events = 1))
               => resources = SerialOutcome(c)

\* The event of a call that changed the table is about to be raised
C13_Witness ==
    \E c \in Callers :
        /\ call[c].pc = "emit"
        /\ call[c].name \in {"set_resource", "remove_one", "remove_all"}
        /\ resources # call[c].before

\* C14: a failure while publishing the event neither propagates to the
\* caller nor rolls back the mutation: the call ends as usual with the
\* table holding its mutation, as if the delivery had succeeded.
C14_DeliveryFailureKeepsMutation ==
    \A c \in Callers :
        call[c].delivery = "failed"
            => (/\ Done(c)
                /\ call[c].events = 1
                /\ resources = SerialOutcome(c)
                /\ ENABLED return(c))

\* The delivery of the event of a call that changed the table has failed
C14_Witness ==
    \E c \in Callers :
        /\ call[c].delivery = "failed"
        /\ resources # call[c].before


\* C15: load is idempotent: a load (or load_cpp) that directly follows a
\* load of the same unchanged file with the same preprocessing leaves the
\* table as the first load left it.
C15_LoadIsIdempotent ==
    \A c \in Callers :
        (/\ Done(c)
         /\ call[c].name \in LoadNames
         /\ last.name = call[c].name
         /\ last.key = <<call[c].path>>
         /\ last.val = <<call[c].nocpp, call[c].cpp>>)
            => resources = call[c].before

\* The second load of a file whose entries the first load has stored
C15_Witness ==
    \E c \in Callers :
        /\ Done(c)
        /\ call[c].name \in LoadNames
        /\ last.name = call[c].name
        /\ last.key = <<call[c].path>>
        /\ last.val = <<call[c].nocpp, call[c].cpp>>
        /\ ~call[c].failed
        /\ DOMAIN call[c].parsed_resources # {}
        /\ DOMAIN call[c].parsed_resources \subseteq DOMAIN resources


\* C16: set_resource and add_resource trim key and value at ingestion:
\* after set_resource(key, val), or add_resource(key, val) on a table
\* lacking the trimmed key, get_resource(trim(key)) returns trim(val), and
\* the call stores no key with leading or trailing whitespace.
C16_ProgrammaticPathTrims ==
    \A c \in Callers :
        (/\ Done(c)
         /\ \/ call[c].name = "set_resource"
            \/ /\ call[c].name = "add_resource"
               /\ Trim(call[c].key) \notin DOMAIN call[c].before)
            => (/\ get_resource_value(variant, resources, Trim(call[c].key))
                      = Trim(call[c].val)
                /\ \A k \in DOMAIN resources \ DOMAIN call[c].before :
                      Trim(k) = k /\ Trim(resources[k]) = resources[k])

\* C17: query(substring) returns one line "key :<TAB>value" for each entry
\* whose key contains the trimmed substring and no other line, in
\* ascending order; the empty substring returns every entry and a
\* substring that matches no key returns the empty string.
C17_QueryReturnsMatches ==
    \A d \in Callers :
        (Done(d) /\ call[d].name = "query")
            => LET ret == call[d].ret[1]
                   ls == Lines(ret)
                   expected == {FormatEntry(k, resources[k]) :
                                   k \in {x \in DOMAIN resources :
                                             Contains(x, Trim(call[d].key))}}
               IN  /\ call[d].ret # None
                   /\ {ls[i] : i \in 1..Len(ls)} = expected
                   /\ Len(ls) = Cardinality(expected)
                   /\ \A i, j \in 1..Len(ls) : i < j => StrLess(ls[i], ls[j])
                   /\ (expected = {} => ret = <<>>)
                   /\ (call[d].key = <<>>
                          => Len(ls) = Cardinality(DOMAIN resources))

\* C18: get_resource(key) returns the value of the trimmed key, or the
\* empty string when the table lacks it; get_resource, query and the
\* Resources property leave the table unchanged and raise no event.
C18_GetResourceAndReadsFrame ==
    \A d \in Callers :
        /\ (Done(d) /\ call[d].name = "get_resource")
              => call[d].ret =
                    Some(IF Trim(call[d].key) \in DOMAIN resources
                         THEN resources[Trim(call[d].key)] ELSE <<>>)
        /\ call[d].name \in ReadNames
              => (/\ resources = call[d].before
                  /\ call[d].events = 0
                  /\ call[d].delivery = "none")

\* A line split at its first ':': the key part holds no ':'
FirstColonSplit(l) ==
    CHOOSE kv \in {<<SubSeq(l, 1, i - 1), SubSeq(l, i + 1, Len(l))>> :
                      i \in {x \in 1..Len(l) : l[x] = ":"}} :
        \A i \in 1..Len(kv[1]) : kv[1][i] # ":"

\* The mapping a text stands for: the lines holding ':' whose trimmed key
\* part is a valid key, each key with the trimmed value part of its last
\* such line
ParsedMapping(text) ==
    LET ls == Lines(text)
        good == {n \in 1..Len(ls) :
                    /\ \E i \in 1..Len(ls[n]) : ls[n][i] = ":"
                    /\ ValidKey(Trim(FirstColonSplit(ls[n])[1]))}
        keys == {Trim(FirstColonSplit(ls[n])[1]) : n \in good}
        lastOf(k) == SetMax({n \in good : Trim(FirstColonSplit(ls[n])[1]) = k})
    IN  [k \in keys |-> Trim(FirstColonSplit(ls[lastOf(k)])[2])]

\* C19: parse is line-granular and last-occurrence-wins: every line is
\* split at its first ':', lines without ':' and lines with an invalid key
\* are dropped without effect on the other lines, the value of a key is
\* that of its last line, and a load stores that value for a key the table
\* lacked.
C19_ParseLastOccurrenceWins ==
    \A c \in Callers :
        (/\ call[c].name \in LoadNames \cup MergeNames \cup {"init"}
         /\ call[c].pc \in {"apply", "emit", "done"}
         /\ ~call[c].failed)
            => LET text == get_preprocessed_file(call[c].path, call[c].nocpp,
                                                 call[c].cpp).text
               IN  /\ call[c].parsed_resources = ParsedMapping(text)
                   /\ call[c].pc # "apply"
                         => \A k \in DOMAIN ParsedMapping(text) \ DOMAIN call[c].before :
                               /\ k \in DOMAIN resources
                               /\ resources[k] = ParsedMapping(text)[k]

ChangedKeys(t, u) ==
    {k \in DOMAIN t \cup DOMAIN u :
        ~(k \in DOMAIN t /\ k \in DOMAIN u /\ t[k] = u[k])}

\* C21: frame of the mutating operations: set_resource, add_resource and
\* remove_one change at most the entry of their own trimmed key; a
\* successful load or merge changes at most entries whose keys are valid
\* keys of the parsed file; every other entry keeps its key and value; no
\* operation other than remove_one and remove_all removes a key.
C21_MutatorsFrame ==
    \A c \in Callers :
        LET changed == ChangedKeys(call[c].before, resources)
        IN  /\ call[c].name \in {"set_resource", "add_resource", "remove_one"}
                  => changed \subseteq {Trim(call[c].key)}
            /\ (call[c].name \in LoadNames \cup MergeNames \cup {"init"}
                /\ call[c].pc \in {"apply", "emit", "done"}
                /\ ~call[c].failed)
                  => changed \subseteq
                        {k \in DOMAIN ParsedMapping(
                                  get_preprocessed_file(call[c].path, call[c].nocpp,
                                                        call[c].cpp).text) :
                            ValidKey(k)}
            /\ (call[c].pc # "idle" /\ call[c].name \notin {"remove_one", "remove_all"})
                  => DOMAIN call[c].before \subseteq DOMAIN resources

====
